---- MODULE Spec2Model ----
(***************************************************************************)
(* Model of the multilingual translation assistant (src/app.py).          *)
(*                                                                         *)
(* Texts are sequences of Unicode code points, so that the script ranges, *)
(* the ASCII test, lower(), strip() and the substring keyword matches are *)
(* computed the way the Python code computes them.  Language codes and    *)
(* label values are enumerated tags and are written as TLA+ strings.      *)
(*                                                                         *)
(* The hosted endpoints (chat completion, speech-to-text, text-to-speech) *)
(* and the langdetect library are opaque: each call's outcome is an input *)
(* of the operator that models the calling function.                      *)
(***************************************************************************)
EXTENDS Integers, Sequences, FiniteSets, TLC

VARIABLES
    src,        \* st.session_state.src
    dst,        \* st.session_state.dst
    chat_init,  \* "chat" in st.session_state
    chat,       \* st.session_state.chat
    run,        \* position and locals of the script run, or how the last one ended
    tmp_files,  \* number of temporary .wav files of this program on disk
    pc,         \* position of a single function call: "call" or "done"
    args,       \* arguments and upstream outcomes of that call
    ret         \* what that call returned or raised, and the calls it made

vars == <<src, dst, chat_init, chat, run, tmp_files, pc, args, ret>>

session_vars == <<src, dst, chat_init, chat, run>>

----------------------------------------------------------------------------
(* Bounds of the model *)

\* longest text enumerated exhaustively for detect_lang_simple and speak
MaxLen == 3

\* most turns of one conversation
MaxTurns == 2

----------------------------------------------------------------------------
(* Strings *)

\* code points the enumerated texts are built from:
\*   ' ' 'I' 'i' 'n' 's'   ASCII (the keywords "is" and "ini" can be spelled)
\*   U+00E9 (e acute)       non-ASCII, in no list
\*   U+0103 (a breve)       non-ASCII, in vietnamese_chars
\*   U+0995                 Bengali script
\*   U+3042, U+4E00         Japanese kana, kanji
Chars == {32, 73, 105, 110, 115, 233, 259, 2453, 12354, 19968}

Texts(n) == UNION {[1..k -> Chars] : k \in 0..n}

\* ch.lower() for one code point: ASCII, Latin-1 and the paired Latin
\* Extended ranges (upper case even, lower case odd)
LowerChar(c) ==
    IF c \in 65..90 THEN c + 32
    ELSE IF c \in 192..222 /\ c # 215 THEN c + 32
    ELSE IF c \in 256..303 /\ c % 2 = 0 THEN c + 1
    ELSE IF c \in {416, 431} THEN c + 1
    ELSE IF c \in 7840..7929 /\ c % 2 = 0 THEN c + 1
    ELSE c

\* str.lower()
Lower(s) == [i \in 1..Len(s) |-> LowerChar(s[i])]

\* str.isspace() for one code point
IsSpace(c) == c \in {9, 10, 11, 12, 13, 28, 29, 30, 31, 32, 133, 160, 12288}

RECURSIVE LStrip(_)
LStrip(s) == IF s # <<>> /\ IsSpace(Head(s)) THEN LStrip(Tail(s)) ELSE s

RECURSIVE RStrip(_)
RStrip(s) ==
    IF s # <<>> /\ IsSpace(s[Len(s)]) THEN RStrip(SubSeq(s, 1, Len(s) - 1)) ELSE s

\* str.strip()
Strip(s) == RStrip(LStrip(s))

\* `sub in s` for strings
Contains(sub, s) ==
    \E i \in 1..(Len(s) - Len(sub) + 1) : SubSeq(s, i, i + Len(sub) - 1) = sub

----------------------------------------------------------------------------
(* detect_lang_simple *)

\* the codes accepted from the detector library
Langs == {"ja", "vi", "en", "bn", "id"}

\* what langdetect.detect can do: return a supported code, return another
\* code, or raise
DetectOutcomes == Langs \cup {"fr", "zh-cn", "fail"}

IsJapaneseChar(c) == (12352 <= c /\ c <= 12543) \/ (19968 <= c /\ c <= 40959)

IsBengaliChar(c) == 2453 <= c /\ c <= 2555

english_words ==
    { <<116, 104, 101>>,               \* the
      <<97, 110, 100>>,                \* and
      <<105, 115>>,                    \* is
      <<97, 114, 101>>,                \* are
      <<119, 97, 115>>,                \* was
      <<119, 101, 114, 101>>,          \* were
      <<104, 97, 118, 101>>,           \* have
      <<104, 97, 115>>,                \* has
      <<119, 105, 108, 108>>,          \* will
      <<119, 111, 117, 108, 100>>,     \* would
      <<99, 97, 110>>,                 \* can
      <<99, 111, 117, 108, 100>> }     \* could

\* U+0103 U+00E2 U+0111 U+00EA U+00F4 U+01A1 U+01B0 U+00E1 U+00E0 U+1EA3
\* U+00E3 U+1EA1
vietnamese_chars ==
    { <<259>>, <<226>>, <<273>>, <<234>>, <<244>>, <<417>>, <<432>>,
      <<225>>, <<224>>, <<7843>>, <<227>>, <<7841>> }

indonesian_words ==
    { <<121, 97, 110, 103>>,               \* yang
      <<100, 97, 110>>,                    \* dan
      <<105, 110, 105>>,                   \* ini
      <<105, 116, 117>>,                   \* itu
      <<100, 101, 110, 103, 97, 110>>,     \* dengan
      <<100, 97, 114, 105>>,               \* dari
      <<117, 110, 116, 117, 107>>,         \* untuk
      <<112, 97, 100, 97>>,                \* pada
      <<100, 97, 108, 97, 109>>,           \* dalam
      <<116, 105, 100, 97, 107>> }         \* tidak

\* a plausible slip: the English keywords tested before the Indonesian ones
KeywordStep_english_first(text) ==
    LET text_lower == Lower(text)
        has_english == \E word \in english_words : Contains(word, text_lower)
        has_vietnamese == \E char \in vietnamese_chars : Contains(char, text_lower)
        has_indonesian == \E word \in indonesian_words : Contains(word, text_lower)
    IN  IF has_vietnamese THEN "vi"
        ELSE IF has_english THEN "en"
        ELSE IF has_indonesian THEN "id"
        ELSE "vi"

\* the keyword step, entered when every character is ASCII
KeywordStep(text) ==
    LET text_lower == Lower(text)
        has_english == \E word \in english_words : Contains(word, text_lower)
        has_vietnamese == \E char \in vietnamese_chars : Contains(char, text_lower)
        has_indonesian == \E word \in indonesian_words : Contains(word, text_lower)
    IN  IF has_vietnamese THEN "vi"
        ELSE IF has_indonesian THEN "id"
        ELSE IF has_english THEN "en"
        ELSE "vi"

\* a plausible slip: the Bengali test placed before the Japanese test
detect_lang_bengali_first(text, det) ==
    IF \E i \in 1..Len(text) : IsBengaliChar(text[i])
    THEN [lang |-> "bn", detect_called |-> FALSE]
    ELSE IF \E i \in 1..Len(text) : IsJapaneseChar(text[i])
    THEN [lang |-> "ja", detect_called |-> FALSE]
    ELSE IF det \in Langs
    THEN [lang |-> det, detect_called |-> TRUE]
    ELSE IF \A i \in 1..Len(text) : text[i] < 128
    THEN [lang |-> KeywordStep(text), detect_called |-> TRUE]
    ELSE [lang |-> "ja", detect_called |-> TRUE]

\* detect_lang_simple(text), det being what detect(text) does if it is called
detect_lang_simple(text, det) ==
    IF \E i \in 1..Len(text) : IsJapaneseChar(text[i])
    THEN [lang |-> "ja", detect_called |-> FALSE]
    ELSE IF \E i \in 1..Len(text) : IsBengaliChar(text[i])
    THEN [lang |-> "bn", detect_called |-> FALSE]
    ELSE IF det \in Langs
    THEN [lang |-> det, detect_called |-> TRUE]
    ELSE IF \A i \in 1..Len(text) : text[i] < 128
    THEN [lang |-> KeywordStep(text), detect_called |-> TRUE]
    ELSE [lang |-> "ja", detect_called |-> TRUE]

----------------------------------------------------------------------------
(* Upstream outcomes *)

\* str(e) of an exception raised by an endpoint call: "timeout", ""
ExcMessages == { <<116, 105, 109, 101, 111, 117, 116>>, <<>> }

\* a parsed JSON value: an object with its fields, or a value of another type
LabelKeys == {"formality", "context", "tone"}

FullLabels ==
    { [formality |-> "formal", context |-> "business", tone |-> "professional"],
      [formality |-> "very_formal", context |-> "legal", tone |-> "serious"],
      [formality |-> "semi", context |-> "sports", tone |-> "polite"] }

JsonObject(fields) == [type |-> "object", fields |-> fields]

JsonObjects ==
    { JsonObject([k \in S |-> full[k]]) : S \in SUBSET LabelKeys, full \in FullLabels }

NoFields == [k \in {} |-> ""]

JsonOthers == { [type |-> t, fields |-> NoFields] : t \in {"array", "string", "number", "null"} }

\* what the classification chat call can do:
\*   fail        client.chat.completions.create raises
\*   no_content  the reply has no choice or its content is None
\*   not_json    the content is text that json.loads rejects
\*   json        the content parses to the value in `value`
ClassifyOutcomes ==
    { [kind |-> k, value |-> [type |-> "null", fields |-> NoFields]] :
          k \in {"fail", "no_content", "not_json"} }
    \cup { [kind |-> "json", value |-> v] : v \in JsonObjects \cup JsonOthers }

\* what the translation chat call can do:
\*   fail        the call raises, str(e) = msg
\*   no_choice   the reply has no choice (IndexError inside the try)
\*   none        message.content is None
\*   ok          message.content is the string in `content`
TranslationContents ==
    { <<>>,                          \* ""
      <<32, 10>>,                    \* " \n"
      <<12354>>,                     \* one kana
      <<32, 12354, 105, 32, 10>> }   \* kana and "i" with surrounding whitespace

TranslateOutcomes ==
    { [kind |-> "fail", msg |-> m, content |-> <<>>] : m \in ExcMessages }
    \cup { [kind |-> k, msg |-> <<>>, content |-> <<>>] : k \in {"no_choice", "none"} }
    \cup { [kind |-> "ok", msg |-> <<>>, content |-> c] : c \in TranslationContents }

\* str(e) of the IndexError of choices[0]: "list index out of range"
IndexErrorMessage ==
    <<108, 105, 115, 116, 32, 105, 110, 100, 101, 120, 32, 111, 117, 116, 32,
      111, 102, 32, 114, 97, 110, 103, 101>>

----------------------------------------------------------------------------
(* detect_formality_and_context *)

formal_indicators ==
    { <<112, 108, 101, 97, 115, 101>>,                                  \* please
      <<116, 104, 97, 110, 107, 32, 121, 111, 117>>,                    \* thank you
      <<115, 105, 110, 99, 101, 114, 101, 108, 121>>,                   \* sincerely
      <<114, 101, 115, 112, 101, 99, 116, 102, 117, 108, 108, 121>>,    \* respectfully
      <<12391, 12372, 12374, 12356, 12414, 12377>>,                     \* de gozaimasu
      <<12356, 12383, 12375, 12414, 12377>>,                            \* itashimasu
      <<120, 105, 110, 32, 99, 104, 224, 111>>,                         \* xin chao
      <<107, 237, 110, 104, 32, 99, 104, 224, 111>> }                   \* kinh chao

casual_indicators ==
    { <<104, 101, 121>>,                                \* hey
      <<121, 111>>,                                     \* yo
      <<12384, 12424>>,                                 \* da yo
      <<12384, 12397>>,                                 \* da ne
      <<12397>>,                                        \* ne
      <<12424>>,                                        \* yo (kana)
      <<99, 104, 224, 111, 32, 98, 7841, 110>>,         \* chao ban
      <<417, 105>> }                                    \* oi

\* the except branch (lines 161-176)
FallbackLabels(text) ==
    LET text_lower == Lower(text)
        formality ==
            IF \E indicator \in formal_indicators : Contains(indicator, text_lower)
            THEN "formal"
            ELSE IF \E indicator \in casual_indicators : Contains(indicator, text_lower)
            THEN "casual"
            ELSE "neutral"
    IN  JsonObject([formality |-> formality, context |-> "personal", tone |-> "friendly"])

ClassifyCall == [op |-> "chat.classify"]

\* detect_formality_and_context(text, lang), cls being what the chat call does
detect_formality_and_context(text, lang, cls) ==
    [ raised |-> FALSE,
      value  |-> IF cls.kind = "json" THEN cls.value ELSE FallbackLabels(text),
      calls  |-> <<ClassifyCall>> ]

\* dict.get(key, default); on a value that is no dict the attribute lookup fails
HasGet(v) == v.type = "object"

Get(v, key, default) == IF key \in DOMAIN v.fields THEN v.fields[key] ELSE default

----------------------------------------------------------------------------
(* translate_text *)

\* "Translation failed"
TranslationFailed ==
    <<84, 114, 97, 110, 115, 108, 97, 116, 105, 111, 110, 32, 102, 97, 105, 108,
      101, 100>>

\* "Translation error: "
TranslationErrorPrefix ==
    <<84, 114, 97, 110, 115, 108, 97, 116, 105, 111, 110, 32, 101, 114, 114, 111,
      114, 58, 32>>

\* lines 198-205
StyleInstruction(formality) ==
    IF formality = "very_formal" THEN "style_very_formal"
    ELSE IF formality = "formal" THEN "style_formal"
    ELSE IF formality = "casual" THEN "style_casual"
    ELSE "style_neutral"

\* lines 207-218
ContextInstruction(context) ==
    IF context = "business" THEN "context_business"
    ELSE IF context = "academic" THEN "context_academic"
    ELSE IF context = "technical" THEN "context_technical"
    ELSE IF context = "medical" THEN "context_medical"
    ELSE IF context = "legal" THEN "context_legal"
    ELSE "context_personal"

\* the chat request of lines 220-246
TranslateCall(text, s, d, labels) ==
    LET formality == Get(labels, "formality", "neutral")
        context == Get(labels, "context", "personal")
        tone == Get(labels, "tone", "friendly")
    IN  [ op |-> "chat.translate",
          style_instruction |-> StyleInstruction(formality),
          context_instruction |-> ContextInstruction(context),
          tone |-> tone, context |-> context, formality |-> formality,
          src |-> s, dst |-> d, text |-> text ]

\* lines 241-249: the value returned after the translation call
TranslateResult(trn) ==
    IF trn.kind = "fail" THEN TranslationErrorPrefix \o trn.msg
    ELSE IF trn.kind = "no_choice" THEN TranslationErrorPrefix \o IndexErrorMessage
    ELSE IF trn.kind = "none" THEN TranslationFailed
    ELSE IF trn.content = <<>> THEN TranslationFailed
    ELSE Strip(trn.content)

\* lines 180-185
ResolveSrc(text, s, det) ==
    IF s = "auto"
    THEN LET detected == detect_lang_simple(text, det).lang
         IN  IF detected \in {"vi", "ja", "en", "bn", "id"} THEN detected ELSE "vi"
    ELSE s

\* a plausible slip: the context analysis placed before the src == dst test
translate_text_classify_first(text, s, d, det, cls, trn) ==
    LET s1 == ResolveSrc(text, s, det)
        context_info == detect_formality_and_context(text, s1, cls)
    IN  IF s1 = d
        THEN [raised |-> FALSE, exc |-> "", value |-> text, calls |-> context_info.calls]
        ELSE IF ~HasGet(context_info.value)
        THEN [raised |-> TRUE, exc |-> "AttributeError", value |-> <<>>,
              calls |-> context_info.calls]
        ELSE [raised |-> FALSE, exc |-> "", value |-> TranslateResult(trn),
              calls |-> context_info.calls
                        \o <<TranslateCall(text, s1, d, context_info.value)>>]

\* translate_text(text, src, dst); det, cls and trn are what detect, the
\* classification call and the translation call do if they are reached
translate_text(text, s, d, det, cls, trn) ==
    LET s1 == ResolveSrc(text, s, det)
    IN  IF s1 = d
        THEN [raised |-> FALSE, exc |-> "", value |-> text, calls |-> <<>>]
        ELSE LET context_info == detect_formality_and_context(text, s1, cls)
             IN  IF ~HasGet(context_info.value)
                 THEN \* context_info.get raises outside of any try (line 191)
                      [raised |-> TRUE, exc |-> "AttributeError", value |-> <<>>,
                       calls |-> context_info.calls]
                 ELSE [raised |-> FALSE, exc |-> "", value |-> TranslateResult(trn),
                       calls |-> context_info.calls
                                 \o <<TranslateCall(text, s1, d, context_info.value)>>]

----------------------------------------------------------------------------
(* transcribe_bytes *)

\* what the temporary file operations can do: NamedTemporaryFile fails (no
\* file is created), tmp.write fails, open(tmp_path) fails, or all succeed
FileOutcomes == {"create_fail", "write_fail", "open_fail", "ok"}

\* what os.remove can do: succeed or raise OSError
RemoveOutcomes == {"ok", "fail"}

\* stt.text values: " is " and one kana followed by a newline
SttTexts == { <<32, 105, 115, 32>>, <<12354, 10>> }

\* what the speech-to-text call can do
SttOutcomes ==
    { [kind |-> "fail", text |-> <<>>] }
    \cup { [kind |-> "ok", text |-> t] : t \in SttTexts }

\* the request of lines 258-261
SttCall(lang_hint) ==
    [ op |-> "stt",
      language |-> IF lang_hint \in {"vi", "ja", "en"} THEN lang_hint ELSE "absent" ]

\* transcribe_bytes(wav_bytes, lang_hint); io, stt and rm are what the file
\* operations, the speech-to-text call and os.remove do.  tmp_left tells
\* whether the temporary file of this call exists when the call ends.
transcribe_bytes(wav_bytes, lang_hint, io, stt, rm) ==
    IF io = "create_fail"
    THEN [raised |-> TRUE, exc |-> "OSError", value |-> <<>>, calls |-> <<>>,
          tmp_left |-> FALSE]
    ELSE IF io = "write_fail"
    THEN \* raised inside the first with block, before the try (lines 253-255)
         [raised |-> TRUE, exc |-> "OSError", value |-> <<>>, calls |-> <<>>,
          tmp_left |-> TRUE]
    ELSE IF io = "open_fail"
    THEN [raised |-> TRUE, exc |-> "OSError", value |-> <<>>, calls |-> <<>>,
          tmp_left |-> (rm = "fail")]
    ELSE IF stt.kind = "fail"
    THEN [raised |-> TRUE, exc |-> "APIError", value |-> <<>>,
          calls |-> <<SttCall(lang_hint)>>, tmp_left |-> (rm = "fail")]
    ELSE [raised |-> FALSE, exc |-> "", value |-> Strip(stt.text),
          calls |-> <<SttCall(lang_hint)>>, tmp_left |-> (rm = "fail")]

----------------------------------------------------------------------------
(* speak *)

\* the voices of the sidebar (line 339)
Voices == {"alloy", "verse", "aria", "sage"}

\* formats a caller can pass; the sidebar offers mp3 and wav (line 343)
Formats == {"mp3", "wav", "ogg"}

\* what the text-to-speech call can do: raise, or answer audio bytes
TtsOutcomes ==
    { [kind |-> "fail", bytes |-> <<>>],
      [kind |-> "ok", bytes |-> <<73, 68, 51>>],
      [kind |-> "ok", bytes |-> <<82, 73, 70, 70>>] }

\* the request of lines 275-285
TtsCall(text, voice, fmt) ==
    [ op |-> "tts", voice |-> voice, input |-> text,
      response_format |-> IF fmt \in {"mp3", "wav"} THEN fmt ELSE "absent" ]

\* a plausible slip: `if not text:` in place of `if not text.strip():`
speak_empty_only(text, voice, fmt, tts) ==
    IF text = <<>>
    THEN [audio |-> <<>>, mime |-> "audio/mp3", calls |-> <<>>, st_error |-> FALSE]
    ELSE IF tts.kind = "ok"
    THEN [audio |-> tts.bytes, mime |-> IF fmt = "mp3" THEN "audio/mp3" ELSE "audio/wav",
          calls |-> <<TtsCall(text, voice, fmt)>>, st_error |-> FALSE]
    ELSE [audio |-> <<>>, mime |-> "audio/mp3",
          calls |-> <<TtsCall(text, voice, fmt)>>, st_error |-> TRUE]

\* speak(text, voice, fmt), tts being what the text-to-speech call does
speak(text, voice, fmt, tts) ==
    IF Strip(text) = <<>>
    THEN [audio |-> <<>>, mime |-> "audio/mp3", calls |-> <<>>, st_error |-> FALSE]
    ELSE IF tts.kind = "ok"
    THEN [audio |-> tts.bytes, mime |-> IF fmt = "mp3" THEN "audio/mp3" ELSE "audio/wav",
          calls |-> <<TtsCall(text, voice, fmt)>>, st_error |-> FALSE]
    ELSE [audio |-> <<>>, mime |-> "audio/mp3",
          calls |-> <<TtsCall(text, voice, fmt)>>, st_error |-> TRUE]

----------------------------------------------------------------------------
(* Session state after the first lines of the script (lines 88-91) *)

\* the script is not running; `ended` tells how the last run ended ("ok",
\* "rerun" for st.rerun(), or the exception that escaped) and `played` the
\* MIME type handed to st.audio in it ("" when no audio was played)
Idle(ended, played) ==
    [ pos |-> "idle", ended |-> ended, played |-> played, mode |-> "",
      src_choice |-> "", dst_choice |-> "", text_in |-> <<>>,
      transcript |-> <<>>, detected |-> "", target |-> "", out |-> <<>> ]

SessionInit ==
    /\ src = "vi"
    /\ dst = "ja"
    /\ chat_init = FALSE
    /\ chat = <<>>
    /\ run = Idle("ok", "")
    /\ tmp_files = 0

----------------------------------------------------------------------------
(* Specification of single calls of detect_lang_simple *)

\* texts of four characters around the keywords of lines 116 and 118:
\* "Inis" (ini, is), "dand" (dan, and), "itu ", "was ", and "ini" after a
\* Bengali letter and after a Latin letter outside ASCII
KeywordSamples ==
    { <<73, 110, 105, 115>>,
      <<100, 97, 110, 100>>,
      <<105, 116, 117, 32>>,
      <<119, 97, 115, 32>>,
      <<2453, 105, 110, 105>>,
      <<233, 105, 110, 105>> }

DetectInit ==
    /\ SessionInit
    /\ pc = "call"
    /\ args \in [text : Texts(MaxLen) \cup KeywordSamples, det : DetectOutcomes]
    /\ ret = [lang |-> "", detect_called |-> FALSE]

CallDetect ==
    /\ pc = "call"
    /\ ret' = detect_lang_simple(args.text, args.det)
    /\ pc' = "done"
    /\ UNCHANGED <<session_vars, tmp_files, args>>

DetectNext == CallDetect

SpecDetect == DetectInit /\ [][DetectNext]_vars

HasJapanese(text) ==
    \E i \in 1..Len(text) : text[i] \in (12352..12543) \cup (19968..40959)

HasBengali(text) == \E i \in 1..Len(text) : text[i] \in 2453..2555

HasVietnameseMark(text) ==
    \E i \in 1..Len(text) :
        text[i] \in {259, 226, 273, 234, 244, 417, 432, 225, 224, 7843, 227, 7841}

\* C7: a text with at least one Japanese kana or kanji code point is detected
\* as ja without consulting the detector library, whatever the library would
\* answer and whatever else the text contains.
C7_JapaneseScriptWins ==
    (pc = "done" /\ HasJapanese(args.text))
        => (ret.lang = "ja" /\ ~ret.detect_called)

\* C7 witness: a text with Bengali and Japanese characters, the detector
\* ready to answer bn, has been detected as ja.
C7_Witness ==
    /\ pc = "done"
    /\ HasJapanese(args.text)
    /\ HasBengali(args.text)
    /\ args.det = "bn"
    /\ ret.lang = "ja"

\* C8: a text with a listed Vietnamese diacritic and no Japanese or Bengali
\* character is detected as vi when the detector fails or answers a code
\* outside the supported set.
C8_VietnamesePrecedence ==
    ( /\ pc = "done"
      /\ HasVietnameseMark(args.text)
      /\ ~HasJapanese(args.text)
      /\ ~HasBengali(args.text)
      /\ args.det \notin {"vi", "ja", "en", "bn", "id"} )
        => ret.lang = "vi"

----------------------------------------------------------------------------
(* Specification of single calls of detect_formality_and_context *)

\* "", "is", "hey", "Please", "please yo", "itashimasu ne" (kana),
\* "Xin chao" (with a grave), "Kinh chao oi" (with diacritics)
SampleTexts ==
    { <<>>,
      <<105, 115>>,
      <<104, 101, 121>>,
      <<80, 108, 101, 97, 115, 101>>,
      <<112, 108, 101, 97, 115, 101, 32, 121, 111>>,
      <<12356, 12383, 12375, 12414, 12377, 12397>>,
      <<88, 105, 110, 32, 99, 104, 224, 111>>,
      <<75, 237, 110, 104, 32, 99, 104, 224, 111, 32, 417, 105>> }

NoResult == [raised |-> FALSE, exc |-> "", value |-> <<>>, calls |-> <<>>]

ClassifyInit ==
    /\ SessionInit
    /\ pc = "call"
    /\ args \in [text : SampleTexts, lang : Langs, cls : ClassifyOutcomes]
    /\ ret = NoResult

CallClassify ==
    /\ pc = "call"
    /\ ret' = detect_formality_and_context(args.text, args.lang, args.cls)
    /\ pc' = "done"
    /\ UNCHANGED <<session_vars, tmp_files, args>>

ClassifyNext == CallClassify

SpecClassify == ClassifyInit /\ [][ClassifyNext]_vars

\* C4: detect_formality_and_context never raises and its result always has
\* the three fields formality, context and tone, for every upstream outcome;
\* on the fallback path it is {formal | casual | neutral, personal, friendly}.
C4_AlwaysAllThreeFields ==
    pc = "done" =>
        /\ ~ret.raised
        /\ ret.value.type = "object"
        /\ DOMAIN ret.value.fields = {"formality", "context", "tone"}
        /\ args.cls.kind # "json" =>
               /\ ret.value.fields.formality \in {"formal", "casual", "neutral"}
               /\ ret.value.fields.context = "personal"
               /\ ret.value.fields.tone = "friendly"

----------------------------------------------------------------------------
(* Specification of single calls of translate_text *)

TranslateInit ==
    /\ SessionInit
    /\ pc = "call"
    /\ args \in [text : SampleTexts, src : Langs \cup {"auto"}, dst : Langs,
                 det : DetectOutcomes, cls : ClassifyOutcomes,
                 trn : TranslateOutcomes]
    /\ ret = NoResult

CallTranslate ==
    /\ pc = "call"
    /\ ret' = translate_text(args.text, args.src, args.dst, args.det, args.cls,
                             args.trn)
    /\ pc' = "done"
    /\ UNCHANGED <<session_vars, tmp_files, args>>

TranslateNext == CallTranslate

SpecTranslate == TranslateInit /\ [][TranslateNext]_vars

\* C2: when src equals dst, also when src is "auto" and detect_lang_simple
\* resolves it to dst, translate_text returns the input text unchanged and
\* issues neither the classification call nor the translation call.
C2_SameLanguageNoCall ==
    ( /\ pc = "done"
      /\ \/ args.src = args.dst
         \/ /\ args.src = "auto"
            /\ detect_lang_simple(args.text, args.det).lang = args.dst )
        => /\ ~ret.raised
           /\ ret.value = args.text
           /\ ret.calls = <<>>

\* C2 witness: src "auto" was resolved to dst, and a non-empty text came back
\* unchanged although both upstream calls were ready to answer.
C2_Witness ==
    /\ pc = "done"
    /\ args.src = "auto"
    /\ detect_lang_simple(args.text, args.det).lang = args.dst
    /\ args.cls.kind = "json"
    /\ args.trn.kind = "ok"
    /\ args.text # <<>>
    /\ ret.value = args.text
    /\ ret.calls = <<>>

\* C3: translate_text never raises to its caller, for every outcome of the
\* upstream calls; it returns the trimmed response text or an error string.
C3_TranslateNeverRaises ==
    pc = "done" => ~ret.raised

----------------------------------------------------------------------------
(* Specification of single calls of transcribe_bytes *)

\* recordings: b"RIFF", b""
WavSamples == { <<82, 73, 70, 70>>, <<>> }

TranscribeInit ==
    /\ SessionInit
    /\ pc = "call"
    /\ args \in [wav_bytes : WavSamples, lang_hint : Langs \cup {"auto"},
                 io : FileOutcomes, stt : SttOutcomes, rm : RemoveOutcomes]
    /\ ret = [raised |-> FALSE, exc |-> "", value |-> <<>>, calls |-> <<>>,
              tmp_left |-> FALSE]

CallTranscribe ==
    /\ pc = "call"
    /\ ret' = transcribe_bytes(args.wav_bytes, args.lang_hint, args.io, args.stt,
                               args.rm)
    /\ tmp_files' = tmp_files + (IF ret'.tmp_left THEN 1 ELSE 0)
    /\ pc' = "done"
    /\ UNCHANGED <<session_vars, args>>

TranscribeNext == CallTranscribe

SpecTranscribe == TranscribeInit /\ [][TranscribeNext]_vars

\* C6: after transcribe_bytes ends, by return or by any failure (of the
\* speech-to-text call, of reopening the file, of writing the bytes), the
\* temporary file it created no longer exists, unless os.remove itself failed.
C6_TempFileRemovedOnEveryExit ==
    (pc = "done" /\ args.rm # "fail") => (~ret.tmp_left /\ tmp_files = 0)

----------------------------------------------------------------------------
(* Specification of single calls of speak *)

SpeakInit ==
    /\ SessionInit
    /\ pc = "call"
    /\ args \in [text : Texts(MaxLen), voice : Voices, fmt : Formats,
                 tts : TtsOutcomes]
    /\ ret = [audio |-> <<>>, mime |-> "", calls |-> <<>>, st_error |-> FALSE]

CallSpeak ==
    /\ pc = "call"
    /\ ret' = speak(args.text, args.voice, args.fmt, args.tts)
    /\ pc' = "done"
    /\ UNCHANGED <<session_vars, tmp_files, args>>

SpeakNext == CallSpeak

SpecSpeak == SpeakInit /\ [][SpeakNext]_vars

IsBlank(text) == \A i \in 1..Len(text) : IsSpace(text[i])

\* C9: for an empty or whitespace-only text, speak returns empty bytes with
\* the MIME type audio/mp3 and does not call the text-to-speech endpoint, for
\* every voice and every format.
C9_BlankTextNoCall ==
    (pc = "done" /\ IsBlank(args.text))
        => /\ ret.audio = <<>>
           /\ ret.mime = "audio/mp3"
           /\ ret.calls = <<>>
           /\ ~ret.st_error

\* C9 witness: a non-empty text of whitespace only, format wav, the endpoint
\* ready to answer, came back as empty bytes without a call.
C9_Witness ==
    /\ pc = "done"
    /\ args.text # <<>>
    /\ IsBlank(args.text)
    /\ args.fmt = "wav"
    /\ args.tts.kind = "ok"
    /\ ret.audio = <<>>
    /\ ret.mime = "audio/mp3"
    /\ ret.calls = <<>>

\* C10: the MIME string returned with synthesized audio names the format
\* that was requested from the endpoint, for every format passed to speak.
C10_MimeMatchesRequestedFormat ==
    (pc = "done" /\ ~IsBlank(args.text) /\ args.tts.kind = "ok")
        => /\ Len(ret.calls) = 1
           /\ \/ ret.calls[1].response_format = "mp3" /\ ret.mime = "audio/mp3"
              \/ ret.calls[1].response_format = "wav" /\ ret.mime = "audio/wav"

----------------------------------------------------------------------------
(* The script: one run per user interaction (lines 297-659) *)

Modes == {"conversation", "text", "audio"}

\* values the language selectboxes return in the modelled sessions
UserLangs == {"vi", "ja", "en"}

\* texts typed into the text area: "" and "is"
TypedTexts == { <<>>, <<105, 115>> }

\* upstream outcomes drawn in a script run
RunDetectOutcomes == {"en", "fail"}

RunClassifyOutcomes ==
    { [kind |-> "fail", value |-> [type |-> "null", fields |-> NoFields]],
      [kind |-> "json", value |-> [type |-> "array", fields |-> NoFields]],
      [kind |-> "json",
       value |-> JsonObject([formality |-> "formal", context |-> "business",
                             tone |-> "professional"])] }

RunTranslateOutcomes ==
    { [kind |-> "fail", msg |-> <<116, 105, 109, 101, 111, 117, 116>>, content |-> <<>>],
      [kind |-> "ok", msg |-> <<>>, content |-> <<12354>>] }

\* file outcomes that leave no temporary file behind
RunFileOutcomes == {"open_fail", "ok"}

RunTtsOutcomes ==
    { [kind |-> "fail", bytes |-> <<>>], [kind |-> "ok", bytes |-> <<73, 68, 51>>] }

\* format_options (line 343)
AudioFormats == {"mp3", "wav"}

\* the voice selectbox at its default (line 340)
RunVoices == {"alloy"}

\* swap_langs (lines 93-94) on the pair held in the session state
swap_langs(session_src, session_dst) == [src |-> session_dst, dst |-> session_src]

\* a variant of the rule found in an earlier iteration: en falls back to ja
conversation_target_en_special(detected, src_choice, dst_choice) ==
    IF detected = src_choice THEN dst_choice
    ELSE IF detected = dst_choice THEN src_choice
    ELSE IF dst_choice = "en" THEN "ja"
    ELSE dst_choice

\* a plausible slip: every utterance is translated to the output language
conversation_target_always_dst(detected, src_choice, dst_choice) == dst_choice

\* lines 596-602
conversation_target(detected, src_choice, dst_choice) ==
    IF detected = src_choice THEN dst_choice
    ELSE IF detected = dst_choice THEN src_choice
    ELSE dst_choice

\* lines 468-473
audio_target(detected, src_choice, dst_choice) ==
    IF detected = src_choice THEN dst_choice
    ELSE IF detected = dst_choice THEN src_choice
    ELSE dst_choice

\* lines 297-350 when the swap button is not clicked: the mode radio answers
\* m, the source selectbox s and the destination selectbox d
Sidebar(m, s, d) ==
    /\ run.pos = "idle"
    /\ src' = s
    /\ dst' = d
    /\ run' = [Idle("", "") EXCEPT !.pos = "body", !.mode = m,
                                   !.src_choice = s, !.dst_choice = d]
    /\ UNCHANGED <<chat_init, chat, tmp_files, pc, args, ret>>

\* lines 297-325 when the swap button is clicked: the source selectbox has
\* answered s and set the session source; the pair is swapped and the script
\* restarts before the destination selectbox is reached
SidebarSwap(s) ==
    /\ run.pos = "idle"
    /\ src' = swap_langs(s, dst).src
    /\ dst' = swap_langs(s, dst).dst
    /\ run' = Idle("rerun", "")
    /\ UNCHANGED <<chat_init, chat, tmp_files, pc, args, ret>>

\* lines 368-406: text mode, the text area, the button and the context analysis
TextAnalyse(text_in, translate_btn, cls) ==
    /\ run.pos = "body"
    /\ run.mode = "text"
    /\ IF ~translate_btn \/ Strip(text_in) = <<>>
       THEN run' = Idle("ok", "")
       ELSE LET context_info ==
                    detect_formality_and_context(text_in, run.src_choice, cls)
            IN  IF ~HasGet(context_info.value)
                THEN \* context_info.get at line 389
                     run' = Idle("AttributeError", "")
                ELSE run' = [run EXCEPT !.pos = "analysed", !.text_in = text_in]
    /\ UNCHANGED <<src, dst, chat_init, chat, tmp_files, pc, args, ret>>

\* lines 408-421: text mode, the translation
TextTranslate(cls, trn) ==
    /\ run.pos = "analysed"
    /\ run.mode = "text"
    /\ LET out == translate_text(run.text_in, run.src_choice, run.dst_choice,
                                 "fail", cls, trn)
       IN  IF out.raised
           THEN run' = Idle(out.exc, "")
           ELSE run' = [run EXCEPT !.pos = "speak", !.out = out.value]
    /\ UNCHANGED <<src, dst, chat_init, chat, tmp_files, pc, args, ret>>

\* speak, then st.audio if there are bytes; the end of the run
SpeakOut(m, voice, fmt, tts) ==
    /\ run.pos = "speak"
    /\ run.mode = m
    /\ LET r == speak(run.out, voice, fmt, tts)
       IN  run' = Idle("ok", IF r.audio # <<>> THEN r.mime ELSE "")
    /\ UNCHANGED <<src, dst, chat_init, chat, tmp_files, pc, args, ret>>

\* lines 424-426
TextSpeak(voice, fmt, tts) == SpeakOut("text", voice, fmt, tts)

\* after transcribe_bytes returned: detect the language (lines 453, 590)
Resolved(transcript, detected, target) ==
    [run EXCEPT !.pos = "resolved", !.transcript = transcript,
                !.detected = detected, !.target = target]

\* lines 439-473: audio mode, from the recorder to the resolution of the target
AudioInput(wav_bytes, io, stt, det) ==
    /\ run.pos = "body"
    /\ run.mode = "audio"
    /\ IF wav_bytes = <<>>
       THEN run' = Idle("ok", "")
       ELSE LET t == transcribe_bytes(wav_bytes, "auto", io, stt, "ok")
                detected == detect_lang_simple(t.value, det).lang
            IN  IF t.raised
                THEN run' = Idle(t.exc, "")
                ELSE run' = Resolved(t.value, detected,
                                audio_target(detected, run.src_choice, run.dst_choice))
    /\ UNCHANGED <<src, dst, chat_init, chat, tmp_files, pc, args, ret>>

\* lines 475-501: audio mode, the context analysis
AudioAnalyse(cls) ==
    /\ run.pos = "resolved"
    /\ run.mode = "audio"
    /\ LET context_info ==
               detect_formality_and_context(run.transcript, run.detected, cls)
       IN  IF ~HasGet(context_info.value)
           THEN \* context_info.get at line 484
                run' = Idle("AttributeError", "")
           ELSE run' = [run EXCEPT !.pos = "analysed"]
    /\ UNCHANGED <<src, dst, chat_init, chat, tmp_files, pc, args, ret>>

\* lines 503-516: audio mode, the translation
AudioTranslate(cls, trn) ==
    /\ run.pos = "analysed"
    /\ run.mode = "audio"
    /\ LET out == translate_text(run.transcript, run.detected, run.target,
                                 "fail", cls, trn)
       IN  IF out.raised
           THEN run' = Idle(out.exc, "")
           ELSE run' = [run EXCEPT !.pos = "speak", !.out = out.value]
    /\ UNCHANGED <<src, dst, chat_init, chat, tmp_files, pc, args, ret>>

\* lines 518-520
AudioSpeak(voice, fmt, tts) == SpeakOut("audio", voice, fmt, tts)

\* lines 524-572 when the swap button is not clicked: the selectboxes of
\* conversation mode answer s and d, and the log is created if absent
ConversationSelectors(s, d) ==
    /\ run.pos = "body"
    /\ run.mode = "conversation"
    /\ src' = s
    /\ dst' = d
    /\ chat_init' = TRUE
    /\ run' = [run EXCEPT !.pos = "recorder"]
    /\ UNCHANGED <<chat, tmp_files, pc, args, ret>>

\* lines 524-549 when the swap button of conversation mode is clicked, after
\* the source selectbox answered s
ConversationSwap(s) ==
    /\ run.pos = "body"
    /\ run.mode = "conversation"
    /\ src' = swap_langs(s, dst).src
    /\ dst' = swap_langs(s, dst).dst
    /\ run' = Idle("rerun", "")
    /\ UNCHANGED <<chat_init, chat, tmp_files, pc, args, ret>>

\* lines 574-602: conversation mode, from the recorder to the resolution of
\* the target
ConversationInput(wav_bytes, io, stt, det) ==
    /\ run.pos = "recorder"
    /\ run.mode = "conversation"
    /\ IF wav_bytes = <<>> \/ Len(chat) >= MaxTurns
       THEN run' = Idle("ok", "")
       ELSE LET t == transcribe_bytes(wav_bytes, "auto", io, stt, "ok")
                detected == detect_lang_simple(t.value, det).lang
            IN  IF t.raised
                THEN run' = Idle(t.exc, "")
                ELSE run' = Resolved(t.value, detected,
                                conversation_target(detected, run.src_choice,
                                                    run.dst_choice))
    /\ UNCHANGED <<src, dst, chat_init, chat, tmp_files, pc, args, ret>>

\* a plausible slip: the parity taken after the append, so the first turn is B
append_turn_parity_after(log, transcript, translation, detected, target) ==
    Append(log, [ speaker |-> IF (Len(log) + 1) % 2 = 0 THEN "A" ELSE "B",
                  transcript |-> transcript,
                  translation |-> translation,
                  src |-> detected,
                  dst |-> target ])

\* lines 605-611: st.session_state.chat.append({...})
append_turn(log, transcript, translation, detected, target) ==
    Append(log, [ speaker |-> IF Len(log) % 2 = 0 THEN "A" ELSE "B",
                  transcript |-> transcript,
                  translation |-> translation,
                  src |-> detected,
                  dst |-> target ])

\* lines 604-611: conversation mode, translate and append the turn
ConversationTurn(cls, trn) ==
    /\ run.pos = "resolved"
    /\ run.mode = "conversation"
    /\ LET translation == translate_text(run.transcript, run.detected, run.target,
                                         "fail", cls, trn)
       IN  IF translation.raised
           THEN /\ run' = Idle(translation.exc, "")
                /\ UNCHANGED chat
           ELSE /\ chat' = append_turn(chat, run.transcript, translation.value,
                                       run.detected, run.target)
                /\ run' = [run EXCEPT !.pos = "speak", !.out = translation.value]
    /\ UNCHANGED <<src, dst, chat_init, tmp_files, pc, args, ret>>

\* lines 612-614
ConversationSpeak(voice, fmt, tts) == SpeakOut("conversation", voice, fmt, tts)

Init ==
    /\ SessionInit
    /\ pc = "idle"
    /\ args = <<>>
    /\ ret = <<>>

Next ==
    \/ \E m \in Modes, s \in UserLangs, d \in UserLangs : Sidebar(m, s, d)
    \/ \E s \in UserLangs : SidebarSwap(s)
    \/ \E text_in \in TypedTexts, translate_btn \in BOOLEAN,
          cls \in RunClassifyOutcomes :
           TextAnalyse(text_in, translate_btn, cls)
    \/ \E cls \in RunClassifyOutcomes, trn \in RunTranslateOutcomes :
           TextTranslate(cls, trn)
    \/ \E voice \in RunVoices, fmt \in AudioFormats, tts \in RunTtsOutcomes :
           TextSpeak(voice, fmt, tts)
    \/ \E wav_bytes \in WavSamples, io \in RunFileOutcomes, stt \in SttOutcomes,
          det \in RunDetectOutcomes :
           AudioInput(wav_bytes, io, stt, det)
    \/ \E cls \in RunClassifyOutcomes : AudioAnalyse(cls)
    \/ \E cls \in RunClassifyOutcomes, trn \in RunTranslateOutcomes :
           AudioTranslate(cls, trn)
    \/ \E voice \in RunVoices, fmt \in AudioFormats, tts \in RunTtsOutcomes :
           AudioSpeak(voice, fmt, tts)
    \/ \E s \in UserLangs, d \in UserLangs : ConversationSelectors(s, d)
    \/ \E s \in UserLangs : ConversationSwap(s)
    \/ \E wav_bytes \in WavSamples, io \in RunFileOutcomes, stt \in SttOutcomes,
          det \in RunDetectOutcomes :
           ConversationInput(wav_bytes, io, stt, det)
    \/ \E cls \in RunClassifyOutcomes, trn \in RunTranslateOutcomes :
           ConversationTurn(cls, trn)
    \/ \E voice \in RunVoices, fmt \in AudioFormats, tts \in RunTtsOutcomes :
           ConversationSpeak(voice, fmt, tts)

Spec == Init /\ [][Next]_vars

\* C1: in audio-input mode and in conversation mode the resolved target is
\* dst when detected = src, otherwise src when detected = dst, otherwise dst
\* (no special case for en); with src = dst the target is dst.
C1_TurnDirection ==
    (run.mode \in {"audio", "conversation"} /\ run.target # "") =>
        /\ run.detected = run.src_choice => run.target = run.dst_choice
        /\ (run.detected # run.src_choice /\ run.detected = run.dst_choice)
               => run.target = run.src_choice
        /\ (run.detected # run.src_choice /\ run.detected # run.dst_choice)
               => run.target = run.dst_choice
        /\ run.src_choice = run.dst_choice => run.target = run.dst_choice

\* C1 witness: in conversation mode an utterance detected as ja, which is
\* neither side of the pair (vi, en), was given the target en.
C1_Witness ==
    /\ run.pos = "resolved"
    /\ run.mode = "conversation"
    /\ run.src_choice = "vi"
    /\ run.dst_choice = "en"
    /\ run.detected = "ja"
    /\ run.target = "en"

\* C5: whichever external call fails during a user action, in any of the
\* three modes, no exception escapes the action: every run ends normally (or
\* by the restart of a swap).
C5_NoExceptionEscapes ==
    run.pos = "idle" => run.ended \in {"ok", "rerun"}

IsPrefix(a, b) == Len(a) <= Len(b) /\ SubSeq(b, 1, Len(a)) = a

Alternates(log) ==
    \A i \in 1..Len(log) :
        log[i].speaker = (IF (i - 1) % 2 = 0 THEN "A" ELSE "B")

\* C11: the conversation log is append-only and its speakers alternate by
\* parity: every step leaves the earlier log a prefix of the new one and adds
\* at most one turn; an utterance that was translated adds exactly one turn;
\* the turn at 0-based index i is spoken by A when i is even and by B when i
\* is odd; a step that changes the language pair leaves the log unchanged.
C11_AppendOnlyAlternating ==
    [][ /\ IsPrefix(chat, chat')
        /\ Len(chat') <= Len(chat) + 1
        /\ Alternates(chat')
        /\ (run.mode = "conversation" /\ run.pos = "resolved" /\ run'.pos = "speak")
               => Len(chat') = Len(chat) + 1
        /\ (src' # src \/ dst' # dst \/ run'.ended = "rerun") => chat' = chat
      ]_vars

\* C11 witness: with two turns in the log, spoken by A and then B, the pair
\* has just been swapped and the log is still there.
C11_Witness ==
    /\ Len(chat) = 2
    /\ chat[1].speaker = "A"
    /\ chat[2].speaker = "B"
    /\ run.pos = "idle"
    /\ run.ended = "rerun"
    /\ src = "ja"
    /\ dst = "vi"

\* C12: whenever transcribe_bytes calls the speech-to-text service, the call
\* carries the hint as its explicit language parameter if the hint is one of
\* vi, ja, en, bn, id, and carries no language parameter for any other hint.
C12_SupportedHintPassedAsLanguage ==
    (pc = "done" /\ ret.calls # <<>>) =>
        ret.calls[1].language =
            (IF args.lang_hint \in {"vi", "ja", "en", "bn", "id"}
             THEN args.lang_hint
             ELSE "absent")

IsAscii(text) == \A i \in 1..Len(text) : text[i] \in 0..127

HasKeyword(words, text) == \E word \in words : Contains(word, Lower(text))

C14_RulePairIsSessionPair ==
    (run.mode = "conversation" /\ run.pos = "resolved") =>
        (run.src_choice = src /\ run.dst_choice = dst)

\* C15: in conversation mode, when the pair the rule read has src # dst, the
\* resolved target differs from the detected language and translate_text
\* reaches its upstream calls whatever they answer; the turn appended to the
\* log has its target in the pair and, when the pair has src # dst, a source
\* different from its target; an appended turn with source equal to target
\* occurs only when src, dst and the detected language are all equal.
C15_DistinctPairNeverNoOp ==
    [][ (run.mode = "conversation" /\ run.pos = "resolved") =>
          /\ run.src_choice # run.dst_choice =>
                /\ run.target # run.detected
                /\ \A cls \in RunClassifyOutcomes, trn \in RunTranslateOutcomes :
                      translate_text(run.transcript, run.detected, run.target,
                                     "fail", cls, trn).calls # <<>>
          /\ chat' # chat =>
                LET turn == chat'[Len(chat')]
                IN  /\ turn.dst \in {run.src_choice, run.dst_choice}
                    /\ run.src_choice # run.dst_choice => turn.src # turn.dst
                    /\ turn.src = turn.dst =>
                          (run.src_choice = turn.src /\ run.dst_choice = turn.src)
      ]_vars

\* C15 witness: with a pair of two different languages, an utterance detected
\* as the output language has been logged with the input language as target.
C15_Witness ==
    /\ run.mode = "conversation"
    /\ run.pos = "speak"
    /\ run.src_choice # run.dst_choice
    /\ run.detected = run.dst_choice
    /\ Len(chat) >= 1
    /\ chat[Len(chat)].src = run.detected
    /\ chat[Len(chat)].dst = run.src_choice

====
